---- MODULE Spec2Model ----
(***************************************************************************)
(* Thumbnail cache synchronisation of the gallery server (src/main.rs):    *)
(* the startup pass generate_startup_thumbnails_for_dir, the watcher task  *)
(* monitor_directory, the codec step create_thumbnail, and main, which     *)
(* orders them.  The file system (image folder, thumbnail folder) is part  *)
(* of the state; the environment creates, modifies and removes source      *)
(* files and restarts the process (Spec).  SpecPaths is one run with the   *)
(* creation events of every shape, SpecWalk the startup pass on trees with *)
(* an entry that is no regular file, SpecResize the resize step alone.     *)
(***************************************************************************)
EXTENDS Naturals, Sequences, FiniteSets, TLC

\* ------------------------------------------------------------------ bounds
\* Number of environment steps (file changes, channel errors) over a behaviour.
MaxChanges == 2
\* Number of process starts over a behaviour.
MaxRuns == 2
\* Largest number of source files present when the first process starts.
MaxInitFiles == 2
\* Largest width and height of the source images drawn for the resize step.
MaxDim == 160

\* ------------------------------------------------------------ file system
\* Directories of the image folder, as the chain of names below the root.
Root == <<>>
SubDir == <<"sub">>
Dirs == {Root, SubDir}

\* The candidate source files: two that differ only in their extension, two
\* that differ only in their directory, and one whose name no other has.
SrcPaths ==
    { [dir |-> Root,   stem |-> "a", ext |-> "jpg"],
      [dir |-> Root,   stem |-> "a", ext |-> "png"],
      [dir |-> SubDir, stem |-> "a", ext |-> "jpg"],
      [dir |-> SubDir, stem |-> "b", ext |-> "png"] }

\* What a present regular file is: one that decodes as an image, or one that
\* does not (zero bytes, garbage, text).
Contents == {"image", "junk"}

\* A candidate entry that is neither a directory nor a regular file, and what
\* it is when present: a symbolic link to an image file, a symbolic link to a
\* directory (the image folder itself, say), or a FIFO.  DirEntry::file_type
\* does not follow links, so is_dir() is false for each of them.
Special == [dir |-> SubDir, stem |-> "l", ext |-> "jpg"]
OtherKinds == {"link", "dirlink", "fifo"}
KindsOf(p) == IF p = Special THEN OtherKinds ELSE Contents

\* The kinds of notification the notify crate delivers (EventKind).  Which
\* kind reports a file creation depends on the backend recommended_watcher
\* picks for the platform: Create(Any) or the specific Create(File).
CreateKinds == {"CreateAny", "CreateFile"}
EventKinds == CreateKinds \cup {"Modify", "Remove"}

VARIABLES
    src,        \* image folder: present source path -> content
    cache,      \* thumbnail folder tree: present cache path -> artifact
    run,        \* number of the current process start
    mainPc,     \* position of main
    stack,      \* call stack of generate_startup_thumbnails_for_dir
    recCall,    \* create_thumbnail call in progress in the startup pass
    watcherPc,  \* position of the monitor_directory task
    watchCall,  \* create_thumbnail call in progress in the watcher
    subscribed, \* the recursive watch on the image folder is established
    queue,      \* messages in the notification channel
    chanClosed, \* the sending side of the channel is gone
    backend,    \* the kind with which the platform's watcher reports a creation
    writable,   \* the thumbnail folder accepts writes (space, permissions)
    changes,    \* environment steps taken so far
    recCalls,   \* create_thumbnail calls of the startup pass of this run
    recWrites,  \* artifacts saved by the startup pass of this run
    clean,      \* a startup pass has completed and src is as it was then
    baseline,   \* a startup pass completed before this run and src is as it was
    img,        \* dimensions <<W, H>> of the image create_thumbnail decoded
    thumb       \* dimensions <<w, h>> of the thumbnail it made of it

vars == <<src, cache, run, mainPc, stack, recCall, watcherPc, watchCall,
          subscribed, queue, chanClosed, backend, writable, changes, recCalls,
          recWrites, clean, baseline, img, thumb>>

fsVars == <<src, cache, writable, backend>>
mainVars == <<mainPc, stack, recCall>>
watchVars == <<watcherPc, watchCall, subscribed, queue, chanClosed>>
ghostVars == <<recCalls, recWrites, clean, baseline>>
geomVars == <<img, thumb>>

\* No image decoded, no thumbnail made.
NoDims == <<0, 0>>

\* --------------------------------------------------------------- paths
\* Path::file_name: the last component, here stem and extension.
file_name(p) == [stem |-> p.stem, ext |-> p.ext]

\* Path::new(&CONFIG.thumbnail_folder).join(file_name): a child of the
\* thumbnail folder itself, whatever directory the source file is in.
join_thumbnail_folder(f) == [dir |-> Root, stem |-> f.stem, ext |-> f.ext]

\* Path::with_extension: the extension replaced, directory and stem kept.
with_extension(p, e) == [p EXCEPT !.ext = e]

\* Variant: the pass keeps the directory of the source file in the cache path.
ReconcilerCachePathMirrored(p) == [dir |-> p.dir, stem |-> p.stem, ext |-> "webp"]

\* The cache path the startup pass checks and hands to create_thumbnail.
ReconcilerCachePath(p) ==
    with_extension(join_thumbnail_folder(file_name(p)), "webp")

\* Variant: the watcher hands over the path below the thumbnail folder that
\* mirrors the source path.
WatcherOutputPathMirrored(p) == [dir |-> p.dir, stem |-> p.stem, ext |-> p.ext]

\* The output path the watcher hands to create_thumbnail.
WatcherOutputPath(p) == join_thumbnail_folder(file_name(p))

\* The Path Mapper of the specification: the path relative to the image
\* folder, below the cache root, with the extension normalised.
PathMapper(p) == [dir |-> p.dir, stem |-> p.stem, ext |-> "webp"]

\* Variant: the existence check always answers no.
existsNever(p) == FALSE

\* Path::exists on a cache path.
exists(p) == p \in DOMAIN cache

\* image::open succeeds: the file, or the file the link leads to, is there
\* and decodes.
Decodable(p) == p \in DOMAIN src /\ src[p] \in {"image", "link"}

\* image::open does not return: opening a FIFO for reading waits for a writer.
Blocks(p) == p \in DOMAIN src /\ src[p] = "fifo"

IsRegular(p) == p \in DOMAIN src /\ src[p] \in Contents

EmptyMap == [x \in {} |-> x]

\* fs::read_dir(dir): the files and the sub-directories directly in dir.
FilesIn(d) == {p \in DOMAIN src : p.dir = d}
SubDirsOf(d) == {e \in Dirs : Len(e) = Len(d) + 1 /\ SubSeq(e, 1, Len(d)) = d}
Frame(d) == [dir |-> d, files |-> FilesIn(d), subdirs |-> SubDirsOf(d)]

\* The process exists and has not aborted.
Alive == mainPc # "aborted"

\* ---------------------------------------------------------------- Init
InitTrees ==
    UNION { [S -> Contents] : S \in {T \in SUBSET SrcPaths : Cardinality(T) <= MaxInitFiles} }

Init ==
    /\ src \in InitTrees
    /\ cache = EmptyMap
    /\ run = 1
    /\ mainPc = "start"
    /\ stack = <<>>
    /\ recCall = {}
    /\ watcherPc = "unspawned"
    /\ watchCall = {}
    /\ subscribed = FALSE
    /\ queue = <<>>
    /\ chanClosed = FALSE
    /\ backend \in CreateKinds
    /\ writable = TRUE
    /\ changes = 0
    /\ recCalls = 0
    /\ recWrites = 0
    /\ clean = FALSE
    /\ baseline = FALSE
    /\ img = NoDims
    /\ thumb = NoDims

\* ---------------------------------------------------- main, startup pass
\* main calls generate_startup_thumbnails_for_dir on the image folder.
StartReconcile ==
    /\ mainPc = "start"
    /\ mainPc' = "reconciling"
    /\ stack' = <<Frame(Root)>>
    /\ UNCHANGED <<geomVars, fsVars, run, recCall, watchVars, changes, ghostVars>>

Top == stack[Len(stack)]
ReplaceTop(f) == [stack EXCEPT ![Len(stack)] = f]

\* The next entry of the walk is a directory: recurse into it.
RecEnterDir ==
    /\ mainPc = "reconciling" /\ recCall = {}
    /\ \E d \in Top.subdirs :
        stack' = Append(ReplaceTop([Top EXCEPT !.subdirs = @ \ {d}]), Frame(d))
    /\ UNCHANGED <<geomVars, fsVars, run, mainPc, recCall, watchVars, changes, ghostVars>>

\* The next entry is not a directory: check the cache path, call the codec
\* when nothing exists there.
RecVisitFile ==
    /\ mainPc = "reconciling" /\ recCall = {}
    /\ \E p \in Top.files :
        LET thumbnail_path == ReconcilerCachePath(p) IN
        /\ stack' = ReplaceTop([Top EXCEPT !.files = @ \ {p}])
        /\ IF ~exists(thumbnail_path)
           THEN /\ recCall' = {[image_path |-> p, output_path |-> thumbnail_path]}
                /\ recCalls' = recCalls + 1
           ELSE UNCHANGED <<recCall, recCalls>>
    /\ UNCHANGED <<geomVars, fsVars, run, mainPc, watchVars, changes, recWrites, clean, baseline>>

\* The directory is exhausted: return to the caller, or to main.
RecReturn ==
    /\ mainPc = "reconciling" /\ recCall = {}
    /\ Top.files = {} /\ Top.subdirs = {}
    /\ stack' = SubSeq(stack, 1, Len(stack) - 1)
    /\ mainPc' = IF Len(stack) = 1 THEN "spawn" ELSE mainPc
    /\ clean' = IF Len(stack) = 1 THEN TRUE ELSE clean
    /\ UNCHANGED <<geomVars, fsVars, run, recCall, watchVars, changes, recCalls, recWrites, baseline>>

\* ------------------------------------------------------ create_thumbnail
\* The artifact create_thumbnail saves: output_path with the extension webp,
\* holding the thumbnail of image_path.
webp_path(c) == with_extension(c.output_path, "webp")
Saved(c) == (webp_path(c) :> [from |-> c.image_path, complete |-> TRUE]) @@ cache

\* Variant: a failed save removes whatever is at the path.
AfterFailedSaveCleansUp(c) ==
    {[q \in DOMAIN cache \ {webp_path(c)} |-> cache[q]]}

\* thumb.save fails: either the file could not be created and the tree is as
\* it was, or it was created (truncating what was there) and the write failed.
AfterFailedSave(c) ==
    {cache, (webp_path(c) :> [from |-> c.image_path, complete |-> FALSE]) @@ cache}

\* Variant: a failed decode leaves an empty file at the path.
AfterFailedDecodeEmptyFile(c) ==
    (webp_path(c) :> [from |-> c.image_path, complete |-> FALSE]) @@ cache

\* image::open fails: the if-let has no else, nothing is written.
AfterFailedDecode(c) == cache

\* The unwrap of a failed save panics on the main thread, inside the
\* synchronous startup pass: the process is gone.
PanicInMain ==
    /\ mainPc' = "aborted"
    /\ stack' = <<>>
    /\ recCall' = {}

\* Variant: the failure is logged and the loop goes on.
LogAndContinue(pc) ==
    /\ watcherPc' = "armed"
    /\ watchCall' = {}
    /\ UNCHANGED <<mainVars, subscribed, queue, chanClosed>>

\* A panic inside the spawned monitor_directory task unwinds that task only:
\* the runtime catches it, the watcher and the receiver are dropped, main
\* goes on.
PanicInWatcher(pc) ==
    /\ watcherPc' = pc
    /\ watchCall' = {}
    /\ subscribed' = FALSE
    /\ queue' = <<>>
    /\ UNCHANGED <<mainVars, chanClosed>>

\* create_thumbnail called from the startup pass runs to its end.
RecCodecDecodeFails ==
    /\ mainPc = "reconciling"
    /\ \E c \in recCall :
        /\ ~Decodable(c.image_path) /\ ~Blocks(c.image_path)
        /\ cache' = AfterFailedDecode(c)
        /\ recCall' = {}
    /\ UNCHANGED <<geomVars, src, writable, backend, run, mainPc, stack, watchVars, changes, ghostVars>>

RecCodecSaves ==
    /\ mainPc = "reconciling"
    /\ \E c \in recCall :
        /\ Decodable(c.image_path) /\ writable
        /\ cache' = Saved(c)
        /\ recCall' = {}
        /\ recWrites' = recWrites + 1
    /\ UNCHANGED <<geomVars, src, writable, backend, run, mainPc, stack, watchVars, changes,
                   recCalls, clean, baseline>>

RecCodecSaveFails ==
    /\ mainPc = "reconciling"
    /\ \E c \in recCall :
        /\ Decodable(c.image_path) /\ ~writable
        /\ cache' \in AfterFailedSave(c)
    /\ PanicInMain
    /\ UNCHANGED <<geomVars, src, writable, backend, run, watchVars, changes, ghostVars>>

\* ----------------------------------------------- create_thumbnail: resize
\* The box of img.resize(150, 150, Lanczos3): nwidth and nheight.
BoxSize == 150

Max(a, b) == IF a >= b THEN a ELSE b
Diff(a, b) == IF a >= b THEN a - b ELSE b - a

\* Widths and heights of the source images: everything up to MaxDim, which
\* lies above the box, and the sides of three large pictures.
Dim == (1 .. MaxDim) \cup {300, 600, 800}

\* DynamicImage::resize keeps the aspect ratio and scales the image to the
\* largest size that fits the box: the side that meets the box first becomes
\* the box side, whether the image was larger or smaller than the box, and
\* the other side follows, at least 1.  The image crate has computed the
\* other side in integers, rounding down, and in later releases in floating
\* point, rounding to nearest; the build decides which.
resize_down(W, H) ==
    IF BoxSize * H <= W * BoxSize
    THEN <<BoxSize, Max(1, (H * BoxSize) \div W)>>
    ELSE <<Max(1, (W * BoxSize) \div H), BoxSize>>

resize_nearest(W, H) ==
    IF BoxSize * H <= W * BoxSize
    THEN <<BoxSize, Max(1, (2 * H * BoxSize + W) \div (2 * W))>>
    ELSE <<Max(1, (2 * W * BoxSize + H) \div (2 * H)), BoxSize>>

resize(d) == {resize_down(d[1], d[2]), resize_nearest(d[1], d[2])}

\* The resize step of create_thumbnail on a decoded image.
Resize ==
    /\ img # NoDims
    /\ thumb = NoDims
    /\ thumb' \in resize(img)
    /\ UNCHANGED <<img, fsVars, run, mainVars, watchVars, changes, ghostVars>>

\* ------------------------------------------------------------------ main
\* Variant: the task is spawned before the startup pass is called.
SpawnMonitorEarly ==
    /\ \/ /\ mainPc = "start" /\ watcherPc = "unspawned"
          /\ watcherPc' = "spawned"
          /\ UNCHANGED mainPc
       \/ /\ mainPc = "spawn"
          /\ mainPc' = "bind"
          /\ UNCHANGED watcherPc
    /\ UNCHANGED <<geomVars, fsVars, run, stack, recCall, watchCall, subscribed, queue,
                   chanClosed, changes, ghostVars>>

\* tokio::spawn(monitor_directory()): the task exists, main goes on.
SpawnMonitor ==
    /\ mainPc = "spawn"
    /\ mainPc' = "bind"
    /\ watcherPc' = "spawned"
    /\ UNCHANGED <<geomVars, fsVars, run, stack, recCall, watchCall, subscribed, queue,
                   chanClosed, changes, ghostVars>>

\* TcpListener::bind(..).await.unwrap() succeeds and axum::serve accepts
\* requests.
BindListener ==
    /\ mainPc = "bind"
    /\ mainPc' = "serving"
    /\ UNCHANGED <<geomVars, fsVars, run, stack, recCall, watchVars, changes, ghostVars>>

\* The unwrap of bind panics in main: the process exits and its tasks, the
\* watcher and the channel go with it.
BindListenerFails ==
    /\ mainPc = "bind"
    /\ mainPc' = "aborted"
    /\ watcherPc' = "killed"
    /\ watchCall' = {}
    /\ subscribed' = FALSE
    /\ queue' = <<>>
    /\ chanClosed' = FALSE
    /\ UNCHANGED <<geomVars, fsVars, run, stack, recCall, changes, ghostVars>>

\* --------------------------------------------------- monitor_directory
\* Variant: on subscribing, the watcher reports as created a file already
\* there that has nothing at its cache path.
WatchSubscribeScans ==
    /\ Alive /\ watcherPc = "spawned"
    /\ watcherPc' = "armed"
    /\ subscribed' = TRUE
    /\ LET missing == {p \in DOMAIN src : ReconcilerCachePath(p) \notin DOMAIN cache}
       IN  queue' = IF missing = {} THEN queue
                    ELSE Append(queue, [ok |-> TRUE, kind |-> "CreateAny",
                                        paths |-> <<CHOOSE p \in missing : TRUE>>])
    /\ UNCHANGED <<geomVars, fsVars, run, mainVars, watchCall, chanClosed, changes,
                   ghostVars>>

\* recommended_watcher(tx).unwrap() and watcher.watch(..).unwrap() succeed.
WatchSubscribe ==
    /\ Alive /\ watcherPc = "spawned"
    /\ watcherPc' = "armed"
    /\ subscribed' = TRUE
    /\ UNCHANGED <<geomVars, fsVars, run, mainVars, watchCall, queue, chanClosed, changes,
                   ghostVars>>

\* One of the two unwraps panics: no watch is established.
WatchSubscribeFails ==
    /\ Alive /\ watcherPc = "spawned"
    /\ PanicInWatcher("subfailed")
    /\ UNCHANGED <<geomVars, fsVars, run, changes, ghostVars>>

\* Variant: the loop also ends on an event of a kind it does not handle.
LoopContinuesOnCreateOnly(msg) == msg.ok /\ msg.kind = "CreateAny"

\* while let Ok(Ok(event)) = rx.recv(): the loop goes on for an event and
\* ends for an error the watcher delivered.
LoopContinues(msg) == msg.ok

\* Variant: a modification is handled like a creation.
KindAcceptedOrModify(kind) == kind \in {"CreateAny", "Modify"}

\* if let EventKind::Create(CreateKind::Any) = event.kind
KindAccepted(kind) == kind = "CreateAny"

\* Variant: the watcher takes the last path of the event, not the first.
WatcherRecvLastPath ==
    /\ Alive /\ watcherPc = "armed" /\ queue # <<>>
    /\ LET msg == Head(queue) IN
        IF ~msg.ok
        THEN /\ watcherPc' = "stopped"
             /\ subscribed' = FALSE
             /\ queue' = <<>>
             /\ UNCHANGED watchCall
        ELSE /\ queue' = Tail(queue)
             /\ UNCHANGED subscribed
             /\ IF msg.kind = "CreateAny" /\ msg.paths # <<>>
                THEN LET path == msg.paths[Len(msg.paths)] IN
                     /\ watchCall' = {[image_path |-> path,
                                       output_path |-> WatcherOutputPath(path)]}
                     /\ watcherPc' = "processing"
                ELSE UNCHANGED <<watcherPc, watchCall>>
    /\ UNCHANGED <<geomVars, fsVars, run, mainVars, chanClosed, changes, ghostVars>>

\* Variant: the watcher, like the startup pass, calls create_thumbnail only
\* when nothing exists at the cache path.
WatcherRecvIfAbsent ==
    /\ Alive /\ watcherPc = "armed" /\ queue # <<>>
    /\ LET msg == Head(queue) IN
        IF ~msg.ok
        THEN /\ watcherPc' = "stopped"
             /\ subscribed' = FALSE
             /\ queue' = <<>>
             /\ UNCHANGED watchCall
        ELSE /\ queue' = Tail(queue)
             /\ UNCHANGED subscribed
             /\ IF /\ msg.kind = "CreateAny" /\ msg.paths # <<>>
                   /\ ReconcilerCachePath(Head(msg.paths)) \notin DOMAIN cache
                THEN /\ watchCall' =
                          {[image_path |-> Head(msg.paths),
                            output_path |-> WatcherOutputPath(Head(msg.paths))]}
                     /\ watcherPc' = "processing"
                ELSE UNCHANGED <<watcherPc, watchCall>>
    /\ UNCHANGED <<geomVars, fsVars, run, mainVars, chanClosed, changes, ghostVars>>

\* rx.recv() returns a message: one turn of the loop up to the call of
\* create_thumbnail.  Every path the watch reports lies below the image
\* folder and has a last component, so path.file_name().unwrap() succeeds.
WatcherRecv ==
    /\ Alive /\ watcherPc = "armed" /\ queue # <<>>
    /\ LET msg == Head(queue) IN
        IF ~LoopContinues(msg)
        THEN /\ watcherPc' = "stopped"
             /\ subscribed' = FALSE
             /\ queue' = <<>>
             /\ UNCHANGED watchCall
        ELSE /\ queue' = Tail(queue)
             /\ UNCHANGED subscribed
             /\ IF KindAccepted(msg.kind) /\ msg.paths # <<>>
                THEN LET path == Head(msg.paths) IN
                     /\ watchCall' = {[image_path |-> path,
                                       output_path |-> WatcherOutputPath(path)]}
                     /\ watcherPc' = "processing"
                ELSE UNCHANGED <<watcherPc, watchCall>>
    /\ UNCHANGED <<geomVars, fsVars, run, mainVars, chanClosed, changes, ghostVars>>

\* rx.recv() returns Err: every sender is gone and the channel is empty.
WatcherRecvClosed ==
    /\ Alive /\ watcherPc = "armed" /\ queue = <<>> /\ chanClosed
    /\ watcherPc' = "stopped"
    /\ subscribed' = FALSE
    /\ UNCHANGED <<geomVars, fsVars, run, mainVars, watchCall, queue, chanClosed, changes,
                   ghostVars>>

\* create_thumbnail called from the watcher runs to its end.
WatchCodecDecodeFails ==
    /\ Alive /\ watcherPc = "processing"
    /\ \E c \in watchCall :
        /\ ~Decodable(c.image_path) /\ ~Blocks(c.image_path)
        /\ cache' = AfterFailedDecode(c)
    /\ watchCall' = {}
    /\ watcherPc' = "armed"
    /\ UNCHANGED <<geomVars, src, writable, backend, run, mainVars, subscribed, queue, chanClosed,
                   changes, ghostVars>>

WatchCodecSaves ==
    /\ Alive /\ watcherPc = "processing"
    /\ \E c \in watchCall :
        /\ Decodable(c.image_path) /\ writable
        /\ cache' = Saved(c)
    /\ watchCall' = {}
    /\ watcherPc' = "armed"
    /\ UNCHANGED <<geomVars, src, writable, backend, run, mainVars, subscribed, queue, chanClosed,
                   changes, ghostVars>>

WatchCodecSaveFails ==
    /\ Alive /\ watcherPc = "processing"
    /\ \E c \in watchCall :
        /\ Decodable(c.image_path) /\ ~writable
        /\ cache' \in AfterFailedSave(c)
    /\ PanicInWatcher("panicked")
    /\ UNCHANGED <<geomVars, src, writable, backend, run, changes, ghostVars>>

\* ----------------------------------------------------------- environment
\* The source tree is left alone while the startup pass walks it; a change
\* made before the pass begins is a change made before the process started,
\* and one made while the listener is bound is one made just before or after.
EnvMayAct == changes < MaxChanges /\ mainPc \in {"spawn", "serving", "aborted"}

\* The watch delivers into the channel while it is established.
Delivering == Alive /\ subscribed /\ ~chanClosed
Notify(msg) == queue' = IF Delivering THEN Append(queue, msg) ELSE queue
Event(kind, paths) == [ok |-> TRUE, kind |-> kind, paths |-> paths]
ErrorMsg == [ok |-> FALSE, kind |-> "Error", paths |-> <<>>]

EnvCreate ==
    /\ EnvMayAct
    /\ \E p \in SrcPaths \ DOMAIN src, content \in Contents :
        /\ src' = (p :> content) @@ src
        /\ Notify(Event(backend, <<p>>))
    /\ changes' = changes + 1
    /\ clean' = FALSE /\ baseline' = FALSE
    /\ UNCHANGED <<geomVars, cache, writable, backend, run, mainVars, watcherPc, watchCall,
                   subscribed, chanClosed, recCalls, recWrites>>

EnvModify ==
    /\ EnvMayAct
    /\ \E p \in DOMAIN src :
        /\ src' = [src EXCEPT ![p] = IF @ = "image" THEN "junk" ELSE "image"]
        /\ Notify(Event("Modify", <<p>>))
    /\ changes' = changes + 1
    /\ clean' = FALSE /\ baseline' = FALSE
    /\ UNCHANGED <<geomVars, cache, writable, backend, run, mainVars, watcherPc, watchCall,
                   subscribed, chanClosed, recCalls, recWrites>>

EnvRemove ==
    /\ EnvMayAct
    /\ \E p \in DOMAIN src :
        /\ src' = [q \in DOMAIN src \ {p} |-> src[q]]
        /\ Notify(Event("Remove", <<p>>))
    /\ changes' = changes + 1
    /\ clean' = FALSE /\ baseline' = FALSE
    /\ UNCHANGED <<geomVars, cache, writable, backend, run, mainVars, watcherPc, watchCall,
                   subscribed, chanClosed, recCalls, recWrites>>

\* The paths of an event that reports the creation of p.  Event.paths is a
\* list: it holds p, but an event may also come without any path or with the
\* path of another entry of the tree after the first.
CreatePaths(p) == {<<p>>, <<>>} \cup {<<p, q>> : q \in DOMAIN src \ {p}}

\* A file is created and reported by an event with any such list of paths.
EnvCreatePaths ==
    /\ EnvMayAct
    /\ \E p \in SrcPaths \ DOMAIN src, content \in Contents :
        /\ src' = (p :> content) @@ src
        /\ \E paths \in CreatePaths(p) : Notify(Event(backend, paths))
    /\ changes' = changes + 1
    /\ clean' = FALSE /\ baseline' = FALSE
    /\ UNCHANGED <<geomVars, cache, writable, backend, run, mainVars, watcherPc, watchCall,
                   subscribed, chanClosed, recCalls, recWrites>>

\* The watcher backend reports an error through the channel.
EnvError ==
    /\ EnvMayAct /\ Delivering
    /\ Notify(ErrorMsg)
    /\ changes' = changes + 1
    /\ UNCHANGED <<geomVars, fsVars, run, mainVars, watcherPc, watchCall, subscribed,
                   chanClosed, ghostVars>>

\* The watcher backend ends and drops the sender.
EnvClose ==
    /\ EnvMayAct /\ Delivering
    /\ chanClosed' = TRUE
    /\ changes' = changes + 1
    /\ UNCHANGED <<geomVars, fsVars, run, mainVars, watcherPc, watchCall, subscribed,
                   queue, ghostVars>>

\* The thumbnail folder stops or resumes accepting writes.
EnvDisk ==
    /\ changes < MaxChanges
    /\ writable' = ~writable
    /\ changes' = changes + 1
    /\ UNCHANGED <<geomVars, src, cache, backend, run, mainVars, watchVars, ghostVars>>

\* The process is stopped, if it still runs, and started again: the file
\* system stays, everything in memory is new.
Restart ==
    /\ run < MaxRuns
    /\ mainPc \in {"serving", "aborted"}
    /\ run' = run + 1
    /\ mainPc' = "start"
    /\ stack' = <<>>
    /\ recCall' = {}
    /\ watcherPc' = "unspawned"
    /\ watchCall' = {}
    /\ subscribed' = FALSE
    /\ queue' = <<>>
    /\ chanClosed' = FALSE
    /\ recCalls' = 0
    /\ recWrites' = 0
    /\ baseline' = clean
    /\ UNCHANGED <<geomVars, fsVars, changes, clean>>

Next ==
    \/ StartReconcile
    \/ RecEnterDir
    \/ RecVisitFile
    \/ RecReturn
    \/ RecCodecDecodeFails
    \/ RecCodecSaves
    \/ RecCodecSaveFails
    \/ SpawnMonitor
    \/ BindListener
    \/ BindListenerFails
    \/ WatchSubscribe
    \/ WatchSubscribeFails
    \/ WatcherRecv
    \/ WatcherRecvClosed
    \/ WatchCodecDecodeFails
    \/ WatchCodecSaves
    \/ WatchCodecSaveFails
    \/ EnvCreate
    \/ EnvModify
    \/ EnvRemove
    \/ EnvError
    \/ EnvClose
    \/ EnvDisk
    \/ Restart

Spec == Init /\ [][Next]_vars

\* One process run in which the environment only creates files, reported by
\* events with any list of paths; the thumbnail folder stays writable and the
\* channel stays open.
NextPaths ==
    \/ StartReconcile
    \/ RecEnterDir
    \/ RecVisitFile
    \/ RecReturn
    \/ RecCodecDecodeFails
    \/ RecCodecSaves
    \/ SpawnMonitor
    \/ BindListener
    \/ BindListenerFails
    \/ WatchSubscribe
    \/ WatchSubscribeFails
    \/ WatcherRecv
    \/ WatchCodecDecodeFails
    \/ WatchCodecSaves
    \/ EnvCreatePaths

SpecPaths == Init /\ [][NextPaths]_vars

\* The resize step alone, on a decoded image of any of the drawn dimensions.
InitResize ==
    /\ img \in Dim \X Dim
    /\ thumb = NoDims
    /\ src = EmptyMap
    /\ cache = EmptyMap
    /\ run = 1
    /\ mainPc = "start"
    /\ stack = <<>>
    /\ recCall = {}
    /\ watcherPc = "unspawned"
    /\ watchCall = {}
    /\ subscribed = FALSE
    /\ queue = <<>>
    /\ chanClosed = FALSE
    /\ backend = "CreateAny"
    /\ writable = TRUE
    /\ changes = 0
    /\ recCalls = 0
    /\ recWrites = 0
    /\ clean = FALSE
    /\ baseline = FALSE

NextResize == Resize

\* The startup pass alone, on any tree of the candidate entries, the one that
\* is not a regular file among them, left as it is while the pass walks it.
WalkTrees ==
    UNION { {f \in [S -> Contents \cup OtherKinds] : \A p \in S : f[p] \in KindsOf(p)} :
            S \in SUBSET (SrcPaths \cup {Special}) }

InitWalk ==
    /\ src \in WalkTrees
    /\ cache = EmptyMap
    /\ run = 1
    /\ mainPc = "start"
    /\ stack = <<>>
    /\ recCall = {}
    /\ watcherPc = "unspawned"
    /\ watchCall = {}
    /\ subscribed = FALSE
    /\ queue = <<>>
    /\ chanClosed = FALSE
    /\ backend \in CreateKinds
    /\ writable \in BOOLEAN
    /\ changes = 0
    /\ recCalls = 0
    /\ recWrites = 0
    /\ clean = FALSE
    /\ baseline = FALSE
    /\ img = NoDims
    /\ thumb = NoDims

NextWalk ==
    \/ StartReconcile
    \/ RecEnterDir
    \/ RecVisitFile
    \/ RecReturn
    \/ RecCodecDecodeFails
    \/ RecCodecSaves
    \/ RecCodecSaveFails

SpecWalk == InitWalk /\ [][NextWalk]_vars

\* The main thread runs the pass without waiting for anything but the calls
\* it makes: a step of the pass that can be taken is taken.
FairWalk == SpecWalk /\ WF_vars(NextWalk)

SpecResize == InitResize /\ [][NextResize]_vars

\* ================================================================ claims
\* The startup pass of this run has returned.
PassDone == mainPc \in {"spawn", "bind", "serving"}

\* C1 as stated: when a startup pass has run to completion and the process is
\* started again with the source tree unchanged, the second pass makes no call
\* of create_thumbnail at all.
C1_SecondPassNoCalls == baseline => recCalls = 0

\* C1 as amended: under the same condition the second pass saves no artifact,
\* and every call of create_thumbnail it makes is for a file that does not
\* decode (no artifact exists at its cache path, so the check lets it through
\* again).
C1_SecondPassNoWrites ==
    baseline =>
        /\ recWrites = 0
        /\ \A c \in recCall :
            /\ ~Decodable(c.image_path)
            /\ ~exists(c.output_path)

\* The second pass over an unchanged tree that holds a decodable image has
\* returned, and it did call the codec.
C1_Witness ==
    /\ baseline /\ PassDone
    /\ recCalls > 0
    /\ \E p \in DOMAIN src : Decodable(p)

\* C2: once the startup pass has completed and while the source tree is as it
\* was, every source file either has an artifact at the mirrored cache path
\* PathMapper(F) or does not decode.
C2_Mirroring ==
    clean => \A p \in DOMAIN src : exists(PathMapper(p)) \/ ~Decodable(p)

\* C3: the cache path the startup pass checks and writes, and the cache path
\* the watcher writes, is the mirrored path cache_root/D/S.webp of the source
\* file; every artifact lies at the mirrored path of the file it was made from.
C3_PathPreservesDirectory ==
    /\ \A c \in recCall : c.output_path = PathMapper(c.image_path)
    /\ \A c \in watchCall : webp_path(c) = PathMapper(c.image_path)
    /\ \A q \in DOMAIN cache : q = PathMapper(cache[q].from)

\* The watcher is inside its loop.
InLoop(pc) == pc \in {"armed", "processing"}

\* The step is one of the running process and not its exit or its restart
\* (an exit kills the watcher task from outside).
StaysAlive == Alive /\ run' = run /\ watcherPc' # "killed"

\* The save of the call c, made now, fails.
SaveWouldFail(c) == Decodable(c.image_path) /\ ~writable

\* The step ends the codec call of the startup pass with a failed save.
RecSaveFailsStep ==
    /\ mainPc = "reconciling"
    /\ \E c \in recCall : SaveWouldFail(c)
    /\ recCall' = {}

\* The step ends the codec call of the watcher with a failed save.
WatchSaveFailsStep ==
    /\ StaysAlive /\ watcherPc = "processing"
    /\ \E c \in watchCall : SaveWouldFail(c)
    /\ watchCall' = {}

\* C4, in the form a finite run refutes: when the armed watcher takes from the
\* channel the creation notification (of any creation kind) of a file that
\* decodes, it is then generating the artifact or the artifact exists at the
\* cache path the watcher writes for that file.  Nothing else in the process
\* would produce it later.
C4_CreationNotificationHandled ==
    [][ ( /\ StaysAlive /\ watcherPc = "armed"
          /\ queue # <<>> /\ queue' = Tail(queue)
          /\ Head(queue).ok
          /\ Head(queue).kind \in CreateKinds
          /\ Head(queue).paths # <<>>
          /\ Decodable(Head(queue).paths[1]) )
        => ( \/ watcherPc' = "processing"
             \/ with_extension(WatcherOutputPath(Head(queue).paths[1]), "webp")
                    \in DOMAIN cache' ) ]_vars

\* C5: a call of create_thumbnail on a file that does not decode ends with the
\* cache tree as it was and without a panic, and the caller goes on: in the
\* startup pass the walk keeps every entry it had still to visit, in the
\* watcher the loop is armed again with the channel as it was.
C5_CorruptInputResilience ==
    [][ /\ \A c \in recCall :
            (mainPc = "reconciling" /\ ~Decodable(c.image_path) /\ recCall' = {})
            => /\ cache' = cache
               /\ mainPc' = "reconciling"
               /\ stack' = stack
        /\ \A c \in watchCall :
            ( /\ StaysAlive /\ watcherPc = "processing"
              /\ ~Decodable(c.image_path) /\ watchCall' = {} )
            => /\ cache' = cache
               /\ watcherPc' = "armed"
               /\ queue' = queue /\ subscribed' = subscribed
               /\ mainPc' = mainPc ]_vars

\* The startup pass is inside create_thumbnail for a file that does not
\* decode, with entries of the directory still to visit.
C5_Witness ==
    /\ mainPc = "reconciling"
    /\ \E c \in recCall : ~Decodable(c.image_path)
    /\ Top.files # {}

\* The watcher task exists only once the startup pass has returned, and at
\* most one codec call is in progress.
StartupOrdered ==
    /\ watcherPc # "unspawned" =>
        /\ mainPc \notin {"start", "reconciling"}
        /\ stack = <<>> /\ recCall = {}
    /\ ~(recCall # {} /\ watchCall # {})
    /\ Cardinality(recCall) <= 1 /\ Cardinality(watchCall) <= 1

\* C6: in every state the watcher task exists only after the startup pass has
\* returned and no two codec calls are in progress together; within one run
\* the startup pass is entered from the start of main only, never again once
\* it has returned.
C6_StartupOrdering ==
    [][ /\ StartupOrdered /\ StartupOrdered'
        /\ (mainPc' = "reconciling" /\ mainPc # "reconciling") => mainPc = "start"
        /\ (run' = run /\ mainPc \notin {"start", "reconciling"})
               => mainPc' \notin {"start", "reconciling"} ]_vars

\* The watcher is inside create_thumbnail in a run whose startup pass called
\* the codec too.
C6_Witness == watchCall # {} /\ recCalls > 0

\* C7 as stated: a failed save aborts the whole process, whether the call
\* came from the startup pass or from the watcher.
C7_WriteFailureAbortsProcess ==
    [][ /\ RecSaveFailsStep => mainPc' = "aborted"
        /\ WatchSaveFailsStep => mainPc' = "aborted" ]_vars

\* What the code does on a failed save (beside C7): in the startup pass it
\* aborts the process, and nothing happens in it afterwards; in the watcher it
\* ends the watcher task only: main is where it was, and for the rest of the
\* run the watcher takes no event and the cache tree does not change.
WriteFailureEndsCaller ==
    [][ /\ RecSaveFailsStep => mainPc' = "aborted"
        /\ (mainPc = "aborted" /\ run' = run) =>
               /\ mainPc' = "aborted"
               /\ UNCHANGED <<cache, watcherPc, watchCall, queue>>
        /\ WatchSaveFailsStep =>
               /\ watcherPc' = "panicked"
               /\ UNCHANGED <<mainPc, stack, recCall>>
        /\ (watcherPc = "panicked" /\ StaysAlive) =>
               /\ watcherPc' = "panicked"
               /\ UNCHANGED <<cache, watchCall, queue>> ]_vars

\* The watcher has ended on a failed save and the server accepts requests.
WatcherPanickedWhileServing == watcherPc = "panicked" /\ mainPc = "serving"

\* C8: the process does not serve requests when the watch could not be
\* established.
C8_NoServingWithoutWatch == ~(watcherPc = "subfailed" /\ mainPc = "serving")

\* The channel has delivered an error, or is closed and empty.
ChannelEnded ==
    \/ queue # <<>> /\ ~Head(queue).ok
    \/ queue = <<>> /\ chanClosed

\* C9 as stated: while the process runs, the watcher is armed again after
\* every event it processes, and it leaves its loop only when the channel is
\* closed or delivers an error.
C9_LeavesLoopOnlyOnChannelEnd ==
    [][ /\ (StaysAlive /\ watcherPc = "processing" /\ watchCall' = {})
               => watcherPc' = "armed"
        /\ (StaysAlive /\ InLoop(watcherPc) /\ ~InLoop(watcherPc'))
               => (watcherPc = "armed" /\ ChannelEnded) ]_vars

\* The lifecycle the code has (beside C9): the watcher is armed again after
\* every event whose save does not fail; it leaves its loop only when the
\* channel is closed or delivers an error, or when a save fails; leaving
\* leaves main where it is, and for the rest of the run the watcher takes no
\* event and writes nothing.  An event of an ignored kind, an event without a
\* path and a file that does not decode leave it armed.
WatcherLifecycle ==
    [][ /\ ( /\ StaysAlive /\ watcherPc = "processing"
             /\ watchCall' = {} /\ ~WatchSaveFailsStep )
               => watcherPc' = "armed"
        /\ (StaysAlive /\ InLoop(watcherPc) /\ ~InLoop(watcherPc'))
               => /\ \/ watcherPc = "armed" /\ ChannelEnded
                     \/ WatchSaveFailsStep
                  /\ watcherPc' \in {"stopped", "panicked"}
                  /\ UNCHANGED <<mainPc, stack, recCall>>
        /\ (watcherPc \in {"stopped", "panicked"} /\ StaysAlive)
               => UNCHANGED <<watcherPc, watchCall, queue, cache>> ]_vars

\* The watcher has left its loop on the channel's end and the server accepts
\* requests.
WatcherStoppedWhileServing == watcherPc = "stopped" /\ mainPc = "serving"

\* C10: an artifact that exists at a cache path exists there in the next
\* state, and its content changes only in a step of a codec call whose
\* output is that path.
C10_ArtifactsNeverDeleted ==
    [][ \A q \in DOMAIN cache :
            /\ q \in DOMAIN cache'
            /\ cache'[q] # cache[q] =>
                   \E c \in recCall \cup watchCall : webp_path(c) = q ]_vars

\* An artifact exists whose source file is gone.
C10_Witness == \E q \in DOMAIN cache : cache[q].from \notin DOMAIN src

\* C11 as the specification states it: a thumbnail made of a W x H image
\* has its longer side equal to the box side when the image's longer side
\* exceeds the box and equal to the image's longer side otherwise (no
\* upscaling), and w/h equals W/H up to the rounding of each side to an
\* integer.
AspectKept(W, H, w, h) == Diff(w * H, h * W) < W + H

C11_FitWithoutUpscaling ==
    thumb # NoDims =>
        /\ Max(thumb[1], thumb[2]) =
               (IF Max(img[1], img[2]) > BoxSize THEN BoxSize
                                                 ELSE Max(img[1], img[2]))
        /\ AspectKept(img[1], img[2], thumb[1], thumb[2])

\* What the resize step does instead: the longer side of every thumbnail is
\* the box side, for small images too, and the aspect ratio is kept.
ResizeFillsBox ==
    thumb # NoDims =>
        /\ Max(thumb[1], thumb[2]) = BoxSize
        /\ AspectKept(img[1], img[2], thumb[1], thumb[2])

SmallImageResized == thumb # NoDims /\ Max(img[1], img[2]) < BoxSize

\* The startup pass is done with source file p in this step: it skipped p at
\* the existence check, or the create_thumbnail call for p returned.
RecProcessed(p) ==
    /\ mainPc = "reconciling" /\ mainPc' = "reconciling" /\ run' = run
    /\ \/ /\ recCall = {} /\ recCall' = {}
          /\ Len(stack') = Len(stack)
          /\ p \in Top.files /\ p \notin stack'[Len(stack)].files
       \/ /\ recCall # {} /\ recCall' = {}
          /\ \A c \in recCall : c.image_path = p

\* The watcher is done with source file p in this step: the create_thumbnail
\* call for p returned.
WatchProcessed(p) ==
    /\ StaysAlive
    /\ watcherPc = "processing" /\ watcherPc' = "armed"
    /\ watchCall # {} /\ \A c \in watchCall : c.image_path = p

\* p is decodable and another decodable source file has the same cache path.
Collides(p) ==
    /\ Decodable(p)
    /\ \E q \in DOMAIN src \ {p} :
          Decodable(q) /\ ReconcilerCachePath(q) = ReconcilerCachePath(p)

ThumbnailOf(p) == [from |-> p, complete |-> TRUE]

TakesAccepted ==
    /\ StaysAlive
    /\ watcherPc = "armed" /\ queue # <<>>
    /\ Head(queue).ok /\ Head(queue).kind = "CreateAny"
    /\ Head(queue).paths # <<>>
    /\ queue' = Tail(queue)

\* C13: for every creation notification the watcher accepts that carries a
\* path, create_thumbnail is called exactly once, on the first path, whether
\* or not an artifact exists at its cache path: the call begins in the step
\* that takes the notification, no call begins in any other step, and when
\* the call returns for a decodable source the artifact at the path is the
\* new thumbnail.
C13_WatcherCallsUnconditionally ==
    [][/\ TakesAccepted
          => /\ watcherPc' = "processing"
             /\ watchCall' =
                  {[image_path |-> Head(queue).paths[1],
                    output_path |-> WatcherOutputPath(Head(queue).paths[1])]}
       /\ (watchCall' # watchCall /\ watchCall' # {})
          => (TakesAccepted /\ watchCall = {})
       /\ \A c \in watchCall :
            (WatchProcessed(c.image_path) /\ Decodable(c.image_path))
            => /\ ReconcilerCachePath(c.image_path) \in DOMAIN cache'
               /\ cache'[ReconcilerCachePath(c.image_path)]
                     = ThumbnailOf(c.image_path)]_vars

\* The watcher is in a call for a decodable file at whose cache path the
\* thumbnail of another file exists.
C13_Witness ==
    /\ watcherPc = "processing"
    /\ \E c \in watchCall :
          /\ Decodable(c.image_path)
          /\ webp_path(c) \in DOMAIN cache
          /\ cache[webp_path(c)].from # c.image_path

\* The watcher takes a notification (not an error) from the channel.
TakesEvent ==
    /\ StaysAlive
    /\ watcherPc = "armed" /\ queue # <<>>
    /\ Head(queue).ok
    /\ queue' = Tail(queue)

\* Every cache path but q holds after the step what it held before.
OnlyWrites(q) ==
    \A r \in (DOMAIN cache \cup DOMAIN cache') \ {q} :
        r \in DOMAIN cache /\ r \in DOMAIN cache' /\ cache'[r] = cache[r]

\* C14: the processing of one notification writes at most one cache path,
\* the cache path of the first path of the event.  Taking the notification
\* writes nothing and begins at most one call, for the first path; the
\* further paths of the event get no call; while the call runs, every
\* artifact but the one at that cache path stays as it is.
C14_OneNotificationOnePath ==
    [][/\ TakesEvent
          => /\ cache' = cache
             /\ Cardinality(watchCall') <= 1
             /\ \A c \in watchCall' :
                   /\ Head(queue).paths # <<>>
                   /\ c.image_path = Head(queue).paths[1]
       /\ (watcherPc = "processing" /\ run' = run)
          => \A c \in watchCall : OnlyWrites(ReconcilerCachePath(c.image_path))]_vars

\* The watcher is about to take an accepted notification with two paths,
\* both decodable, the second with a cache path of its own at which nothing
\* exists.
C14_Witness ==
    /\ watcherPc = "armed" /\ Alive /\ queue # <<>>
    /\ Head(queue).ok /\ Head(queue).kind = "CreateAny"
    /\ Len(Head(queue).paths) = 2
    /\ Decodable(Head(queue).paths[1]) /\ Decodable(Head(queue).paths[2])
    /\ ReconcilerCachePath(Head(queue).paths[2])
          # ReconcilerCachePath(Head(queue).paths[1])
    /\ ReconcilerCachePath(Head(queue).paths[2]) \notin DOMAIN cache

\* C15 as the specification states it: the startup pass acts on directories
\* and regular files only; an entry of another kind gets no create_thumbnail
\* call and no artifact.
C15_OtherKindsIgnored ==
    /\ \A c \in recCall : IsRegular(c.image_path)
    /\ \A q \in DOMAIN cache : IsRegular(cache[q].from)

\* What the pass does with them: an artifact made through a symbolic link.
LinkThumbnailed == \E q \in DOMAIN cache : src[cache[q].from] = "link"

\* C16: only creation notifications reach the codec.  Taking a notification
\* of another kind (modify, remove) begins no create_thumbnail call and
\* leaves the watcher armed and the cache tree as it is, and no step begins a
\* call except the taking of a creation notification; the artifact of a file
\* whose content was modified stays as it was.
C16_OnlyCreationReachesCodec ==
    [][/\ (TakesEvent /\ Head(queue).kind \notin CreateKinds)
          => /\ watchCall' = {}
             /\ watcherPc' = "armed"
             /\ cache' = cache
       /\ (watchCall' # watchCall /\ watchCall' # {})
          => (TakesEvent /\ Head(queue).kind \in CreateKinds)]_vars

\* The watcher is about to take the modify notification of a file whose
\* thumbnail exists.
C16_Witness ==
    /\ watcherPc = "armed" /\ Alive /\ queue # <<>>
    /\ Head(queue).ok /\ Head(queue).kind = "Modify"
    /\ \E p \in DOMAIN src :
          /\ Head(queue).paths = <<p>>
          /\ ReconcilerCachePath(p) \in DOMAIN cache
          /\ cache[ReconcilerCachePath(p)] = ThumbnailOf(p)

\* Message m is a creation notification the watcher accepts whose first path
\* has the cache path q.
AcceptedFor(m, q) ==
    /\ m.ok /\ m.kind = "CreateAny" /\ m.paths # <<>>
    /\ ReconcilerCachePath(m.paths[1]) = q

\* The decodable file p was missed: the pass of this run is over, nothing
\* exists at the cache path of p, and neither a call nor an accepted
\* notification for that cache path is under way.
Missed(p) ==
    /\ mainPc \notin {"start", "reconciling"}
    /\ Decodable(p)
    /\ ReconcilerCachePath(p) \notin DOMAIN cache
    /\ \A c \in watchCall :
          ReconcilerCachePath(c.image_path) # ReconcilerCachePath(p)
    /\ \A i \in 1 .. Len(queue) : ~AcceptedFor(queue[i], ReconcilerCachePath(p))

\* C17: the startup gap.  A change of the tree made while no watch is
\* established puts nothing in the channel; a decodable file that was missed
\* stays missed, with no artifact, through every step of the same process
\* run that leaves the tree as it is; and the pass of a process start ends
\* with an artifact at the cache path of every decodable file, so that the
\* next start is what produces the artifact.
C17_StartupGap ==
    [][/\ (src' # src /\ ~subscribed) => queue' = queue
       /\ (run' = run /\ src' = src)
          => \A p \in DOMAIN src : Missed(p) => Missed(p)'
       /\ (mainPc = "reconciling" /\ mainPc' = "spawn")
          => \A p \in DOMAIN src :
                Decodable(p) => ReconcilerCachePath(p) \in DOMAIN cache']_vars

\* In the first run the pass is over, the watcher has not subscribed yet, and
\* a decodable file is there with nothing at its cache path: it appeared in
\* the gap, on a platform whose creation notifications the watcher accepts.
C17_Witness ==
    /\ run = 1 /\ changes >= 1 /\ backend = "CreateAny" /\ writable
    /\ mainPc \in {"spawn", "bind", "serving"}
    /\ watcherPc \in {"unspawned", "spawned"}
    /\ \E p \in DOMAIN src : Missed(p)

\* C18: the watcher and the startup pass agree on the cache path.  The path
\* at which a create_thumbnail call of the watcher saves is the path the pass
\* checks for the same source file; hence, once an artifact made of a file
\* exists, whoever made it, the pass of a later start makes no call for that
\* file.
C18_PathsAgree ==
    /\ \A c \in watchCall : webp_path(c) = ReconcilerCachePath(c.image_path)
    /\ \A q \in DOMAIN cache : q = ReconcilerCachePath(cache[q].from)
    /\ \A c \in recCall : \A q \in DOMAIN cache : cache[q].from # c.image_path

\* In the first run the pass wrote nothing, so the artifact there, made of a
\* file in a sub-directory, is the watcher's: it lies where the pass of the
\* next start will look.
C18_Witness ==
    /\ run = 1 /\ PassDone /\ recWrites = 0
    /\ \E p \in DOMAIN src :
          /\ p.dir # Root
          /\ ReconcilerCachePath(p) \in DOMAIN cache
          /\ cache[ReconcilerCachePath(p)] = ThumbnailOf(p)

PassOver == mainPc \notin {"start", "reconciling"}

\* C20 as the specification states it: on every finite tree that is left
\* alone the pass returns or aborts.  In the form a finite run can refute:
\* as long as the pass is not over, it has a step to take.
C20_PassNeverStuck == PassOver \/ ENABLED NextWalk

\* What does hold: on a tree without a FIFO the pass comes to its end, and
\* the walk never leaves the directories of the tree, so a symbolic link to a
\* directory is handled as a file and not descended into.
PassEndsWithoutFifo ==
    (\A p \in DOMAIN src : ~Blocks(p)) => <>PassOver

WalkStaysInTree ==
    /\ Len(stack) <= Cardinality(Dirs)
    /\ \A i \in 1 .. Len(stack) :
          /\ stack[i].dir \in Dirs
          /\ \A j \in 1 .. Len(stack) : stack[j].dir = stack[i].dir => j = i

DirLinkWalked ==
    PassOver /\ Special \in DOMAIN src /\ src[Special] = "dirlink"
====
